---- MODULE Spec2Model ----
(***************************************************************************)
(* The server manager of mcp-gateway (src/mcp_gateway/server_manager.py)   *)
(* as a state machine.  The manager runs on one asyncio event loop: a      *)
(* coroutine runs without interruption from one `await` to the next, and   *)
(* at an `await` any other coroutine may run.  Every action below is one   *)
(* such uninterrupted segment of a handler.                                *)
(*                                                                         *)
(* The code logic is written as operators over a record g (the manager's   *)
(* state) and a record tk (one coroutine: its operation, its position and  *)
(* its locals).  Each returns the SET of possible results [g, tk] of the   *)
(* segment: the peer's answer (success, failure) and the exit of a secret  *)
(* command are the sources of nondeterminism.  The actions apply these     *)
(* operators to the variables.                                             *)
(*                                                                         *)
(* The HTTP handlers that call the manager are coroutines of the same      *)
(* loop: the MCP transport (src/mcp_gateway/mcp_transport.py) with its     *)
(* table of sessions, and the REST tool endpoints of main.py.  A handler   *)
(* carries its request and, once it has returned, its HTTP response.       *)
(***************************************************************************)
EXTENDS Integers, Sequences, FiniteSets, TLC

\* ------------------------------------------------------------ bounds ----
MaxTasks == 2        \* request handlers that can be in flight together
MaxCtx == 3          \* stdio contexts that exist at the same time
MaxOps == 3          \* handlers over one run that suspend or change the manager's state
MaxBatch == 3        \* enable and disable calls recorded between two states of rest
MaxSessions == 2     \* transport sessions minted over one run

\* ----------------------------------------------------- configuration ----
ConfigIds == {"a", "b"}          \* the keys of "mcpServers"
UnknownId == "x"                 \* an id that is not configured
AllIds == ConfigIds \cup {UnknownId}
Reliable == {"a"}                \* peers that answer every request while alive
Catalog == [c \in ConfigIds |-> IF c = "a" THEN {"read", "write"} ELSE {"read"}]
ToolNames == {"read", "write"}
\* load_config: the configurations a run starts from (command may be empty)
Configs ==
  { [c \in ConfigIds |-> [command |-> "srv", password_command |-> <<>>]],
    [c \in ConfigIds |-> [command |-> IF c = "b" THEN "" ELSE "srv",
                          password_command |-> <<>>]] }

\* a configuration with "passwordCommand" entries: the variables, in the order
\* of the dict
SecretConfigs ==
  { [c \in ConfigIds |->
       [command |-> "srv",
        password_command |-> IF c = "a" THEN <<"TOKEN", "KEY">> ELSE <<"PIN">>]] }

\* how the command of one entry ends: exit 0, exit not 0, TimeoutExpired, or
\* another exception of subprocess.run (the command cannot be started)
CmdOutcomes == {"ok", "nonzero", "timeout", "error"}

NoError == "None"

\* the JSON-RPC error a peer answers a tools/call with
PeerErr == [code |-> -32001, message |-> "denied"]

\* one element of the content array of a CallToolResult: a TextContent has a
\* text, an ImageContent has data (letter groups) and a mimeType
TextEl(s) == [type |-> "text", text |-> s, data |-> <<>>, mimeType |-> ""]
ImageEl(d, m) == [type |-> "image", text |-> "", data |-> d, mimeType |-> m]

\* the content array each peer answers a tools/call with
PeerContent ==
  [c \in ConfigIds |->
     IF c = "a" THEN <<TextEl("done"), ImageEl(<<"iVBOR">>, "image/png")>>
     ELSE <<TextEl("ok")>>]

VARIABLES
  configs,           \* MCPServerManager._configs
  enabled_servers,   \* MCPServerManager.enabled_servers
  servers,           \* keys of MCPServerManager.servers, in insertion order
  conn,              \* the MCPServerConnection of each key of servers
  ctxs,              \* the stdio contexts: the child process and the session of each
  tasks,             \* the coroutines: request handlers and the lifespan's shutdown
  nops,              \* handlers started so far that suspended or changed the state
  base,              \* the manager's state when the handlers last were all done
  issued,            \* the enable and disable calls started since then, in order
  phase,             \* lifespan: "serving", "stopping", "stopped"
  sessions,          \* mcp_transport._sessions: the MCPSession of each session id
  minted             \* the session ids drawn so far by secrets.token_urlsafe

vars ==
  <<configs, enabled_servers, servers, conn, ctxs, tasks, nops, base, issued, phase,
    sessions, minted>>

TaskIds == 1..MaxTasks
CtxIds == 1..MaxCtx

\* MCPServerConnection.__init__
NewConn ==
  [status |-> "disconnected", error |-> NoError, tools |-> {},
   stdio |-> 0, sctx |-> 0, session |-> 0]

\* a stdio context: env are the secrets its process was given, exits how the
\* secret commands run for it ended
NoCtx == [owner |-> "", proc |-> "none", sess |-> "none", env |-> {}, exits |-> <<>>]

\* Python's None as a JSON-RPC id
None == "None"

\* a JSON-RPC message: name is params["name"] of a tools/call, letter by letter
NoMsg == [jsonrpc |-> "", method |-> "", id |-> None, name |-> <<>>]

\* an HTTP request: the Mcp-Session-Id header, the session _get_session found
\* for it, the body, and the tool_name of the path of a REST tool endpoint
NoReq == [hdr |-> "", sess |-> "", msg |-> NoMsg, tool |-> ""]

\* an HTTP response: status, Mcp-Session-Id header and body.  kind tells a
\* JSON-RPC result from a JSON-RPC error, a REST answer and an empty body
NoReply ==
  [status |-> 0, header |-> "", kind |-> "none", id |-> None, code |-> 0,
   text |-> <<>>, tools |-> {}, success |-> FALSE, content |-> <<>>]

\* a coroutine: caught tells that disconnect has swallowed (and logged) an error;
\* auto and list are those of the background auto-enable task, i its loop index;
\* req and reply are those of an HTTP handler, mgr the calls it made to the manager;
\* content is the list a call_tool has returned
IdleTask ==
  [op |-> "idle", id |-> "", pc |-> "idle", k |-> 0, ret |-> "", i |-> 0,
   caught |-> FALSE, auto |-> FALSE, list |-> <<>>,
   req |-> NoReq, reply |-> NoReply, mgr |-> <<>>, content |-> <<>>]

\* the manager's state as one value
G ==
  [configs |-> configs, enabled |-> enabled_servers, servers |-> servers,
   conn |-> conn, ctxs |-> ctxs, tasks |-> tasks, sessions |-> sessions, minted |-> minted]

Range(s) == {s[j] : j \in 1..Len(s)}

\* the coroutine suspends at an await; k is the context or session awaited on
Await(tk, pc, k) == [tk EXCEPT !.pc = pc, !.k = k]
\* the coroutine returns val (or raises: val names the exception)
Ret(tk, val) == [tk EXCEPT !.pc = "returned", !.ret = val, !.k = 0]

\* the peer behind session k can answer: its process lives and the session is open
Answers(g, k) == k # 0 /\ g.ctxs[k].proc = "alive" /\ g.ctxs[k].sess = "open"
\* a request on session k can fail: the peer is gone, or is not a reliable one
MayFail(g, k) == ~Answers(g, k) \/ g.ctxs[k].owner \notin Reliable

Min(S) == CHOOSE m \in S : \A n \in S : m <= n

InFlight(tk) == tk.pc \notin {"idle", "returned"}

\* the context ids that name no context: no process, and nothing refers to them
FreeCtx(g) ==
  { k \in CtxIds :
      /\ g.ctxs[k].proc \in {"none", "exited"}
      /\ \A c \in ConfigIds : k \notin {g.conn[c].stdio, g.conn[c].sctx, g.conn[c].session}
      /\ \A t \in TaskIds : InFlight(g.tasks[t]) => g.tasks[t].k # k }

\* --------------------------------------------------------- disconnect ----
\* what the exit of a context can do: return, or raise an Exception
ExitOutcomes == {"ok", "Exception"}

\* no try around the exits: whatever an exit raises leaves disconnect
PropagatesAll(e) == e # "ok"

\* disconnect, lines 115-118 and 124-127: `except Exception` swallows what the
\* exit raises, so no outcome leaves disconnect
Propagates(e) == e \notin {"ok", "Exception"}

\* the end of a disconnect resets every connection, not only its own
DisconnectEndAll(g, c) ==
  [g EXCEPT !.conn = [b \in ConfigIds |-> [@[b] EXCEPT !.status = "disconnected", !.tools = {}]]]

\* disconnect, lines 132-133
DisconnectEnd(g, c) ==
  [g EXCEPT !.conn[c].status = "disconnected", !.conn[c].tools = {}]

\* disconnect from line 122 to the await of line 125, or to the end.  The exit
\* of a stdio context waits for its process; the exit of one that is still
\* being entered, is already being exited, or was never entered raises or
\* returns at once (the context is a generator), and line 126 swallows it.
DisconnectStdio(g, tk, c) ==
  LET k == g.conn[c].stdio IN
  IF k = 0
  THEN [g |-> DisconnectEnd(g, c), tk |-> Await(tk, "disc_done", 0)]
  ELSE IF g.ctxs[k].proc \in {"alive", "exited"}
  THEN [g |-> [g EXCEPT !.ctxs[k].proc = IF @ = "alive" THEN "closing" ELSE "exiting"],
        tk |-> Await(tk, "stdio_exit", k)]
  ELSE IF Propagates("Exception") /\ g.ctxs[k].proc \in {"spawning", "closing", "exiting"}
  THEN [g |-> g, tk |-> Ret(tk, "Raised")]
  ELSE [g |-> DisconnectEnd([g EXCEPT !.conn[c].stdio = 0], c),
        tk |-> Await([tk EXCEPT !.caught = @ \/ g.ctxs[k].proc # "none"], "disc_done", 0)]

\* disconnect from its first line to its first await, or to the end
Disconnect(g, tk, c) ==
  LET s == g.conn[c].sctx IN
  IF s # 0
  THEN [g |-> [g EXCEPT !.ctxs[s].sess = "closed"], tk |-> Await(tk, "sess_exit", s)]
  ELSE DisconnectStdio(g, tk, c)

\* shutdown: the loop of lines 305-306 from its i-th connection, then lines 307-308
RECURSIVE ShutdownLoop(_, _, _)
RECURSIVE AfterDisconnect(_)
ShutdownLoop(g, tk, i) ==
  IF i > Len(g.servers)
  THEN [g |-> [g EXCEPT !.servers = <<>>, !.enabled = {},
                        !.conn = [c \in ConfigIds |-> NewConn]],
        tk |-> Ret([tk EXCEPT !.i = i - 1, !.id = ""], "None")]
  ELSE AfterDisconnect(Disconnect(g, [tk EXCEPT !.i = i, !.id = g.servers[i]], g.servers[i]))

\* the caller of disconnect goes on once disconnect has returned
AfterDisconnect(r) ==
  IF r.tk.pc # "disc_done" THEN r      \* suspended, or left by an exception
  ELSE CASE r.tk.op = "enable" -> [g |-> r.g, tk |-> Ret(r.tk, "False")]
         [] r.tk.op = "disable" -> [g |-> r.g, tk |-> Ret(r.tk, "True")]
         [] r.tk.op = "shutdown" -> ShutdownLoop(r.g, r.tk, r.tk.i + 1)

\* disconnect resumes after the await of line 116
SessExitReturn(g, tk) ==
  LET c == tk.id
      g2 == [g EXCEPT !.conn[c].sctx = 0, !.conn[c].session = 0]
  IN  { IF Propagates(e)
        THEN [g |-> g, tk |-> Ret(tk, "Raised")]
        ELSE AfterDisconnect(DisconnectStdio(g2, [tk EXCEPT !.caught = @ \/ e # "ok"], c)) :
          e \in ExitOutcomes }

\* disconnect resumes after the await of line 125
StdioExitReturn(g, tk) ==
  LET c == tk.id
      g2 == [g EXCEPT !.ctxs[tk.k] = NoCtx]
      g3 == [g2 EXCEPT !.conn[c].stdio = 0]
  IN  { IF Propagates(e)
        THEN [g |-> g2, tk |-> Ret(tk, "Raised")]
        ELSE AfterDisconnect([g |-> DisconnectEnd(g3, c),
                              tk |-> Await([tk EXCEPT !.caught = @ \/ e # "ok"], "disc_done", 0)]) :
          e \in ExitOutcomes }

\* ------------------------------------------------------------ connect ----
\* connect, lines 104-109: the except branch
ConnectFailed(g, tk, msg) ==
  LET c == tk.id
      g2 == [g EXCEPT !.conn[c].status = "error", !.conn[c].error = msg]
  IN  AfterDisconnect(Disconnect(g2, tk, c))

\* the loop over the entries ends at the first command that fails
ResolveUntilFailure(pc, exits) ==
  { pc[j] : j \in { i \in 1..Len(pc) : \A h \in 1..i : exits[h] = "ok" } }

\* _resolve_password_commands: the variables of the secrets it returns.  Each
\* entry has its own try: a command that fails is logged and left out
ResolvePasswordCommands(pc, exits) ==
  { pc[j] : j \in { i \in 1..Len(pc) : exits[i] = "ok" } }

\* connect without the guard of lines 63-64: it spawns whatever the session is
ConnectAlways(g, tk) ==
  LET c == tk.id IN
  IF FreeCtx(g) = {} THEN {}
  ELSE LET k == Min(FreeCtx(g))
           pc == g.configs[c].password_command
       IN
       { [g |-> [g EXCEPT !.conn[c].status = "connecting",
                          !.conn[c].error = NoError,
                          !.conn[c].stdio = k,
                          !.ctxs[k] = [owner |-> c, proc |-> "spawning", sess |-> "none",
                                       env |-> ResolvePasswordCommands(pc, exits),
                                       exits |-> exits]],
          tk |-> Await(tk, "spawn", k)] : exits \in [1..Len(pc) -> CmdOutcomes] }

\* connect from its first line to the await of line 88
Connect(g, tk) ==
  LET c == tk.id IN
  IF g.conn[c].session # 0 THEN { [g |-> g, tk |-> Ret(tk, "True")] }
  ELSE IF FreeCtx(g) = {} THEN {}
  ELSE LET k == Min(FreeCtx(g))
           pc == g.configs[c].password_command
       IN
       { [g |-> [g EXCEPT !.conn[c].status = "connecting",
                          !.conn[c].error = NoError,
                          !.conn[c].stdio = k,
                          !.ctxs[k] = [owner |-> c, proc |-> "spawning", sess |-> "none",
                                       env |-> ResolvePasswordCommands(pc, exits),
                                       exits |-> exits]],
          tk |-> Await(tk, "spawn", k)] : exits \in [1..Len(pc) -> CmdOutcomes] }

\* the spawn of one child waits while the handshake of another is in progress
SpawnReturnSerial(g, tk) ==
  IF \E u \in TaskIds : g.tasks[u].pc \in {"init", "list"} /\ g.tasks[u].id # tk.id
  THEN {}
  ELSE { [g |-> [g EXCEPT !.ctxs[tk.k].proc = "alive", !.ctxs[tk.k].sess = "open",
                          !.conn[tk.id].sctx = tk.k],
          tk |-> Await(tk, "sess_enter", tk.k)] }

\* connect resumes after the await of line 88 and runs to the await of line 92
SpawnReturn(g, tk) ==
  LET c == tk.id
      k == tk.k
  IN  { [g |-> [g EXCEPT !.ctxs[k].proc = "alive", !.ctxs[k].sess = "open",
                         !.conn[c].sctx = k],
         tk |-> Await(tk, "sess_enter", k)] : x \in IF g.configs[c].command # "" THEN {1} ELSE {} }
      \cup
      { ConnectFailed([g EXCEPT !.ctxs[k] = NoCtx], tk, "spawn") :
          x \in IF g.configs[c].command = "" \/ c \notin Reliable THEN {1} ELSE {} }

\* connect resumes after the await of line 92 and runs to the await of line 95
SessEnterReturn(g, tk) ==
  { [g |-> [g EXCEPT !.conn[tk.id].session = tk.k], tk |-> Await(tk, "init", tk.k)] }

\* the id joins the enabled-set when connect has succeeded, not before it starts
EnabledUpdateLate(en, id, at) == IF at = "return" THEN en \cup {id} ELSE en

\* enable_server: the enabled-set once the call has passed `at`, the add of
\* line 249 ("add") or the successful return of line 258 ("return")
EnabledUpdate(en, id, at) == IF at = "add" THEN en \cup {id} ELSE en

\* connect, lines 100-102, and the return of enable_server, line 258
Connected(g, tk) ==
  [g |-> [g EXCEPT !.conn[tk.id].status = "connected",
                   !.enabled = EnabledUpdate(@, tk.id, "return")],
   tk |-> Ret(tk, "True")]

\* connect resumes after the await of line 95 and runs to the await of line 164
InitReturn(g, tk) ==
  LET c == tk.id IN
  { (IF g.conn[c].session = 0
     THEN Connected(g, tk)
     ELSE [g |-> g, tk |-> Await(tk, "list", g.conn[c].session)]) :
       x \in IF Answers(g, tk.k) THEN {1} ELSE {} }
  \cup
  { ConnectFailed(g, tk, "initialize") : x \in IF MayFail(g, tk.k) THEN {1} ELSE {} }

\* _list_tools resumes after the await of line 164; connect runs to its return
ListReturn(g, tk) ==
  LET c == tk.id IN
  { Connected([g EXCEPT !.conn[c].tools = Catalog[c]], tk) :
       x \in IF Answers(g, tk.k) THEN {1} ELSE {} }
  \cup
  { Connected(g, tk) : x \in IF MayFail(g, tk.k) THEN {1} ELSE {} }

\* ------------------------------------------------------------ manager ----
\* enable_server from its first line to the first await of connect
EnableServer(g, tk0, id) ==
  LET tk == [tk0 EXCEPT !.op = "enable", !.id = id] IN
  IF id \notin DOMAIN g.configs THEN { [g |-> g, tk |-> Ret(tk, "False")] }
  ELSE IF id \in g.enabled THEN { [g |-> g, tk |-> Ret(tk, "True")] }
  ELSE LET g2 == [g EXCEPT !.enabled = EnabledUpdate(@, id, "add"),
                           !.servers = IF id \in Range(@) THEN @ ELSE Append(@, id)]
       IN  Connect(g2, tk)

\* disable_server without the test of line 262: the id is discarded and, as
\* it names no connection, True is returned
DisableServerUnchecked(g, tk0, id) ==
  LET tk == [tk0 EXCEPT !.op = "disable", !.id = id]
      g2 == [g EXCEPT !.enabled = @ \ {id}]
  IN  IF id \in Range(g2.servers)
      THEN { AfterDisconnect(Disconnect(g2, tk, id)) }
      ELSE { [g |-> g2, tk |-> Ret(tk, "True")] }

\* disable_server from its first line to the first await of disconnect
DisableServer(g, tk0, id) ==
  LET tk == [tk0 EXCEPT !.op = "disable", !.id = id] IN
  IF id \notin DOMAIN g.configs THEN { [g |-> g, tk |-> Ret(tk, "False")] }
  ELSE LET g2 == [g EXCEPT !.enabled = @ \ {id}] IN
       IF id \in Range(g2.servers)
       THEN { AfterDisconnect(Disconnect(g2, tk, id)) }
       ELSE { [g |-> g2, tk |-> Ret(tk, "True")] }

\* MCPServerManager.call_tool and MCPServerConnection.call_tool to the await of line 142
CallTool(g, tk0, id, tool) ==
  LET tk == [tk0 EXCEPT !.op = "call", !.id = id] IN
  IF id \notin Range(g.servers) THEN { [g |-> g, tk |-> Ret(tk, "NotFound")] }
  ELSE IF g.conn[id].status # "connected" THEN { [g |-> g, tk |-> Ret(tk, "NotConnected")] }
  ELSE IF tool \notin g.conn[id].tools THEN { [g |-> g, tk |-> Ret(tk, "ToolNotFound")] }
  ELSE IF g.conn[id].session = 0 THEN { [g |-> g, tk |-> Ret(tk, "NotConnected")] }
  ELSE { [g |-> g, tk |-> Await(tk, "call", g.conn[id].session)] }

\* str(content) of a content object that is not a TextContent: the repr of its fields
Str(e) == <<"type=", e.type, " data=">> \o e.data \o <<" mimeType=", e.mimeType>>

\* MCPServerConnection.call_tool, lines 145-153: the content_list it returns
ContentList(content) ==
  [j \in 1..Len(content) |->
     IF content[j].type = "text"
     THEN [type |-> "text", text |-> content[j].text, data |-> <<>>, mimeType |-> ""]
     ELSE [type |-> content[j].type, text |-> "", data |-> Str(content[j]), mimeType |-> ""]]

\* MCPServerConnection.call_tool resumes after the await of line 142
CallReturn(g, tk) ==
  { [g |-> g, tk |-> [Ret(tk, "Result") EXCEPT
                        !.k = tk.k, !.content = ContentList(PeerContent[g.ctxs[tk.k].owner])]] :
      x \in IF Answers(g, tk.k) THEN {1} ELSE {} }
  \cup
  { [g |-> g, tk |-> [Ret(tk, "CallFailed") EXCEPT !.k = tk.k]] :
      x \in IF MayFail(g, tk.k) THEN {1} ELSE {} }
  \cup  \* the peer answers with the JSON-RPC error PeerErr: line 156 wraps it
  { [g |-> g, tk |-> [Ret(tk, "PeerError") EXCEPT !.k = tk.k]] :
      x \in IF Answers(g, tk.k) /\ g.ctxs[tk.k].owner \notin Reliable THEN {1} ELSE {} }

\* shutdown from its first line to the first await of a disconnect
Shutdown(g, tk0) ==
  { ShutdownLoop(g, [tk0 EXCEPT !.op = "shutdown"], 1) }

\* -------------------------------------------------------- auto-enable ----
\* the loop stops at the first id whose enable does not succeed
AutoStopsOnFailure(ret) == ret = "True"

\* _auto_enable_servers, lines 53-56: whatever enable_server returns or raises,
\* the loop goes on to the next id
AutoContinues(ret) == ret \in {"True", "False", "Raised"}

\* _auto_enable_servers: the loop of lines 49-56 from its i-th id up to the
\* first await of an enable_server, or to its end (line 58)
RECURSIVE AutoLoop(_, _, _)
RECURSIVE AutoNext(_)
AutoLoop(g, tk, i) ==
  IF i > Len(tk.list)
  THEN { [g |-> g, tk |-> Ret([tk EXCEPT !.op = "auto", !.id = "", !.i = i], "None")] }
  ELSE IF tk.list[i] \notin DOMAIN g.configs
  THEN AutoLoop(g, tk, i + 1)
  ELSE UNION { AutoNext(r) :
                 r \in EnableServer(g, [tk EXCEPT !.i = i, !.caught = FALSE], tk.list[i]) }

\* the loop goes on once enable_server has returned
AutoNext(r) ==
  IF ~(r.tk.auto /\ r.tk.pc = "returned" /\ r.tk.op = "enable") THEN {r}
  ELSE IF AutoContinues(r.tk.ret) THEN AutoLoop(r.g, r.tk, r.tk.i + 1)
  ELSE { [g |-> r.g, tk |-> Ret([r.tk EXCEPT !.op = "auto", !.id = ""], "None")] }

\* the auto-enable task is left to run: nothing is cancelled
CancelNone(g) == g

\* lifespan, lines 82-87: the auto-enable task is cancelled and awaited.
\* CancelledError is raised at the await the task is suspended at; it is no
\* Exception, so neither connect (line 104), disconnect (lines 117, 126) nor
\* the loop (line 55) catches it and the task ends there.  A stdio context whose
\* entry or exit is cancelled unwinds and ends its process.
CancelAuto(g) ==
  LET Cancelled(t) == g.tasks[t].auto /\ InFlight(g.tasks[t])
      Unwound(k) == \E t \in TaskIds :
                      /\ Cancelled(t) /\ g.tasks[t].k = k
                      /\ g.tasks[t].pc \in {"spawn", "stdio_exit"}
  IN  [g EXCEPT !.tasks = [t \in TaskIds |-> IF Cancelled(t) THEN IdleTask ELSE g.tasks[t]],
                !.ctxs = [k \in CtxIds |-> IF Unwound(k) THEN NoCtx ELSE g.ctxs[k]]]

\* ------------------------------------------------------------ readers ----
\* get_server_info
GetServerInfo(g, id) ==
  [status |-> IF id \in Range(g.servers) THEN g.conn[id].status ELSE "disconnected",
   enabled |-> id \in g.enabled,
   tools |-> IF id \in Range(g.servers) THEN g.conn[id].tools ELSE {},
   error |-> IF id \in Range(g.servers) THEN g.conn[id].error ELSE NoError]

\* get_all_tools
GetAllTools(g) ==
  { <<id, tool>> \in g.enabled \X ToolNames :
      /\ id \in Range(g.servers)
      /\ g.conn[id].status = "connected"
      /\ tool \in g.conn[id].tools }

\* get_tool_schema: whether a schema is returned
GetToolSchema(g, id, tool) ==
  /\ id \in Range(g.servers)
  /\ g.conn[id].status = "connected"
  /\ tool \in g.conn[id].tools

\* ---------------------------------------------------------- transport ----
\* the JSON-RPC error codes of mcp_transport.py
ParseError == -32700
InvalidRequest == -32600
MethodNotFound == -32601
InvalidParams == -32602
InternalError == -32603

\* names are spelled letter by letter; the separator of namespaced tool names
Sep == <<"_", "_">>

\* the names under which the peers announce their tools
ToolSpell == [t \in ToolNames |-> IF t = "read" THEN <<"r">> ELSE <<"w", "_", "_", "v">>]

\* load_config for the transport: every key of "mcpServers" is taken as it is
HttpConfigs ==
  { [c \in ConfigIds |-> [command |-> "srv", password_command |-> <<>>,
                          key |-> IF c = "a" THEN <<"a">> ELSE <<"b">>]],
    [c \in ConfigIds |-> [command |-> "srv", password_command |-> <<>>,
                          key |-> IF c = "a" THEN <<"a", "_">> ELSE <<"b", "_", "_", "c">>]] }

\* a source of ids that draws the same value every time
TokenSame(n) == "s1"

\* secrets.token_urlsafe(32): the n-th value drawn.  256 random bits: a value
\* drawn twice is taken not to happen
Token(n) == <<"s1", "s2", "s3", "s4">>[n]

\* the values of the Mcp-Session-Id header of a request: none, the ids that
\* can be minted, and one that never is
Hdrs == {"", "zz"} \cup { Token(n) : n \in 1..MaxSessions }

\* the bodies of the POST requests
MsgIds == {None, "7"}
Methods ==
  {"initialize", "notifications/initialized", "ping", "tools/list", "resources/list"}
CallNames ==
  { <<"a", "_", "_", "r">>, <<"a", "_", "_", "w", "_", "_", "v">>, <<"a", "_", "_", "n">>,
    <<"b", "_", "_", "r">>, <<"a", "_", "_", "_", "r">>, <<"b", "_", "_", "c", "_", "_", "r">>,
    <<"q", "_", "_", "r">>, <<"a", "r">> }
Messages ==
  { [jsonrpc |-> v, method |-> m, id |-> i, name |-> <<>>] :
      v \in {"2.0", "1.0"}, m \in Methods, i \in MsgIds }
  \cup
  { [jsonrpc |-> v, method |-> "tools/call", id |-> i, name |-> n] :
      v \in {"2.0", "1.0"}, i \in MsgIds, n \in CallNames }

\* the first index at which "__" starts in a name, 0 if there is none
FirstSep(n) ==
  LET S == { j \in 1..(Len(n) - 1) : n[j] = "_" /\ n[j + 1] = "_" } IN
  IF S = {} THEN 0 ELSE Min(S)

\* tool_name.split("__", 1), line 157
Split(n) ==
  LET j == FirstSep(n) IN <<SubSeq(n, 1, j - 1), SubSeq(n, j + 2, Len(n))>>

\* f"{server_id}__{schema.name}", line 128
Namespaced(key, tool) == key \o Sep \o tool

\* the child a server_id string names: the lookup of self.servers by key
Resolve(g, key) ==
  IF \E c \in DOMAIN g.configs : g.configs[c].key = key
  THEN CHOOSE c \in DOMAIN g.configs : g.configs[c].key = key
  ELSE UnknownId

\* the tool a tool name string names: the lookup of conn.tools by name
ToolOf(sp) ==
  IF \E t \in ToolNames : ToolSpell[t] = sp
  THEN CHOOSE t \in ToolNames : ToolSpell[t] = sp
  ELSE "nosuch"

\* _get_session
GetSession(g, hdr) == IF hdr # "" /\ hdr \in DOMAIN g.sessions THEN hdr ELSE ""

\* the table is started anew with each session that is created
CreateSessionAnew(g) ==
  LET sid == Token(g.minted + 1) IN
  [g EXCEPT !.minted = @ + 1,
            !.sessions = [x \in {sid} |-> [initialized |-> FALSE]]]

\* _create_session: the new MCPSession joins _sessions under a new id
CreateSession(g) ==
  LET sid == Token(g.minted + 1) IN
  [g EXCEPT !.minted = @ + 1,
            !.sessions = [x \in DOMAIN @ \cup {sid} |->
                            IF x = sid THEN [initialized |-> FALSE] ELSE @[x]]]

\* the notification is dropped: no flag is set
HandleInitializedNot(g, s) == g

\* _handle_initialized: the flag of the MCPSession object the request got at line
\* 255; the object may have left _sessions since
HandleInitialized(g, s) ==
  IF s \in DOMAIN g.sessions THEN [g EXCEPT !.sessions[s].initialized = TRUE] ELSE g

\* _jsonrpc_response
JsonRpcResponse(id) == [NoReply EXCEPT !.kind = "result", !.id = id]

\* _jsonrpc_error
JsonRpcError(id, code, text) ==
  [NoReply EXCEPT !.kind = "error", !.id = id, !.code = code, !.text = text]

\* mcp_post, lines 269-282: the HTTP response built from what _handle_message returned
HttpAnswer(response, new_session, session, status) ==
  IF response.kind = "none" THEN [NoReply EXCEPT !.status = status]
  ELSE [response EXCEPT !.status = status,
                        !.header = IF new_session # "" THEN new_session ELSE session]

\* the handler sends its HTTP response
Send(g, tk, reply) == [g |-> g, tk |-> [Ret(tk, "Sent") EXCEPT !.reply = reply]]

\* str(e) of the RuntimeError a call_tool raised
ErrText(ret) ==
  CASE ret = "NotFound" -> <<"Server not found">>
    [] ret = "NotConnected" -> <<"Server is not connected">>
    [] ret = "ToolNotFound" -> <<"Tool not found on server">>
    [] ret = "CallFailed" -> <<"Tool call failed: ", "connection closed">>
    [] ret = "PeerError" -> <<"Tool call failed: ", PeerErr.message>>

\* what the caller of manager.call_tool answers once the call has returned or
\* raised: _handle_tools_call (lines 160-176) and mcp_post, main.call_tool
\* (main.py 214-230) and main.execute_tool (main.py 435-444)
ToolReply(tk) ==
  CASE tk.op = "post" ->
         HttpAnswer(IF tk.ret = "Result"
                    THEN [JsonRpcResponse(tk.req.msg.id) EXCEPT !.content = tk.content]
                    ELSE JsonRpcError(tk.req.msg.id, InternalError, ErrText(tk.ret)),
                    tk.req.sess, tk.req.sess, 200)
    [] tk.op = "api" ->
         [NoReply EXCEPT !.status = 200, !.kind = "rest", !.success = (tk.ret = "Result"),
                         !.text = IF tk.ret = "Result" THEN <<>> ELSE ErrText(tk.ret),
                         !.content = tk.content]
    [] tk.op = "tools" ->
         IF tk.ret = "Result"
         THEN [NoReply EXCEPT !.status = 200, !.kind = "rest", !.success = TRUE,
                              !.content = tk.content]
         ELSE [NoReply EXCEPT !.status = 500, !.kind = "rest", !.text = ErrText(tk.ret)]

\* the call of an HTTP handler to manager.call_tool is over: the handler answers
AfterCall(r) ==
  IF r.tk.pc = "returned" /\ r.tk.op \in {"post", "api", "tools"} /\ r.tk.ret # "Sent"
  THEN [r EXCEPT !.tk.reply = ToolReply(r.tk)]
  ELSE r

\* _handle_tools_list
HandleToolsList(g, tk, m) ==
  LET tk2 == [tk EXCEPT !.mgr = Append(@, [fn |-> "get_all_tools", id |-> <<>>, tool |-> <<>>])]
      names == { Namespaced(g.configs[p[1]].key, ToolSpell[p[2]]) : p \in GetAllTools(g) }
  IN  { Send(g, tk2, HttpAnswer([JsonRpcResponse(m.id) EXCEPT !.tools = names],
                                tk.req.sess, tk.req.sess, 200)) }

\* the name is split and routed without the test of line 150
HandleToolsCallUnchecked(g, tk, m) ==
  LET p == Split(m.name)
      tk2 == [tk EXCEPT !.mgr = Append(@, [fn |-> "call_tool", id |-> p[1], tool |-> p[2]])]
  IN  { [r EXCEPT !.tk.op = "post"] :
          r \in CallTool(g, tk2, Resolve(g, p[1]), ToolOf(p[2])) }

\* _handle_tools_call up to the await of manager.call_tool, or to its return
HandleToolsCall(g, tk, m) ==
  IF FirstSep(m.name) = 0
  THEN { Send(g, tk, HttpAnswer(JsonRpcError(m.id, InvalidParams, <<"Invalid tool name format">>),
                                tk.req.sess, tk.req.sess, 200)) }
  ELSE LET p == Split(m.name)
           tk2 == [tk EXCEPT !.mgr = Append(@, [fn |-> "call_tool", id |-> p[1], tool |-> p[2]])]
       IN  { [r EXCEPT !.tk.op = "post"] :
               r \in CallTool(g, tk2, Resolve(g, p[1]), ToolOf(p[2])) }

\* every request is served, with a session or without
SessionNotRequired(s) == FALSE

\* _handle_message, line 222: `if not session`
SessionRequired(s) == s = ""

\* a message is taken as a notification only if its method is one of the
\* notifications/ methods
IsNotificationByMethod(m) == m.id = None /\ m.method = "notifications/initialized"

\* _handle_message, line 204: `if request_id is None`
IsNotification(m) == m.id = None

\* _handle_message and the response of mcp_post
HandleMessage(g, tk0, m) ==
  LET tk == [tk0 EXCEPT !.req.msg = m]
      s == tk.req.sess
  IN
  IF m.jsonrpc # "2.0"
  THEN { Send(g, tk, HttpAnswer(JsonRpcError(None, InvalidRequest, <<"Invalid JSON-RPC version">>),
                                s, s, 400)) }
  ELSE IF IsNotification(m)
  THEN { Send(IF m.method = "notifications/initialized" /\ s # ""
              THEN HandleInitialized(g, s) ELSE g,
              tk, HttpAnswer(NoReply, s, s, 202)) }
  ELSE IF m.method = "initialize"
  THEN IF g.minted >= MaxSessions THEN {}
       ELSE { Send(CreateSession(g), tk,
                   HttpAnswer(JsonRpcResponse(m.id), Token(g.minted + 1), s, 200)) }
  ELSE IF SessionRequired(s)
  THEN { Send(g, tk, HttpAnswer(JsonRpcError(m.id, InvalidRequest, <<"Session required">>),
                                "", s, 400)) }
  ELSE IF m.method = "ping"
  THEN { Send(g, tk, HttpAnswer(JsonRpcResponse(m.id), s, s, 200)) }
  ELSE IF m.method = "tools/list" THEN HandleToolsList(g, tk, m)
  ELSE IF m.method = "tools/call" THEN HandleToolsCall(g, tk, m)
  ELSE { Send(g, tk, HttpAnswer(JsonRpcError(m.id, MethodNotFound, <<"Method not found">>),
                                s, s, 200)) }

\* mcp_post from its first line to the await of line 259
McpPost(g, tk0, hdr) ==
  LET tk == [tk0 EXCEPT !.op = "post", !.req.hdr = hdr, !.req.sess = GetSession(g, hdr)] IN
  { [g |-> g, tk |-> Await(tk, "json", 0)] }

\* the DELETE is answered, the session stays in the table
McpDeleteKeeps(g, tk0, hdr) ==
  LET tk == [tk0 EXCEPT !.op = "delete", !.req.hdr = hdr, !.req.sess = GetSession(g, hdr)] IN
  { Send(g, tk, [NoReply EXCEPT !.status = IF tk.req.sess # "" THEN 204 ELSE 404]) }

\* mcp_delete
McpDelete(g, tk0, hdr) ==
  LET tk == [tk0 EXCEPT !.op = "delete", !.req.hdr = hdr, !.req.sess = GetSession(g, hdr)]
      s == tk.req.sess
  IN  IF s # ""
      THEN { Send([g EXCEPT !.sessions = [x \in DOMAIN @ \ {s} |-> @[x]]], tk,
                  [NoReply EXCEPT !.status = 204]) }
      ELSE { Send(g, tk, [NoReply EXCEPT !.status = 404, !.kind = "rest",
                                         !.text = <<"Session not found">>]) }

\* main.call_tool (POST /api/tools/{server_id}/{tool_name}) up to the await of
\* manager.call_tool, or to its return
RestCallTool(g, tk0, id, tool) ==
  { [r EXCEPT !.tk.op = "api"] : r \in CallTool(g, [tk0 EXCEPT !.req.tool = tool], id, tool) }

\* main.execute_tool (POST /tools/{server_id}/{tool_name}) up to the await of
\* main.py line 421
ExecuteTool(g, tk0, id, tool) ==
  { [g |-> g, tk |-> Await([tk0 EXCEPT !.op = "tools", !.id = id, !.req.tool = tool], "json", 0)] }

\* the body of the request has been read: mcp_post resumes after the await of
\* line 259, execute_tool after that of main.py line 421
JsonReturn(g, tk) ==
  IF tk.op = "tools"
  THEN { [r EXCEPT !.tk.op = "tools"] : r \in CallTool(g, tk, tk.id, tk.req.tool) }
  ELSE { Send(g, tk, HttpAnswer(JsonRpcError(None, ParseError, <<"Parse error">>), "", "", 400)) }
       \cup UNION { HandleMessage(g, tk, m) : m \in Messages }

\* ------------------------------------------------------------ actions ----
\* a handler that has returned is over at the next step of the loop
Forget(tk) == IF tk.pc = "returned" THEN IdleTask ELSE tk
\* a new handler takes the first slot that holds no coroutine in flight
Free(t) == ~InFlight(tasks[t]) /\ \A u \in TaskIds : u < t => InFlight(tasks[u])
Quiescent == \A t \in TaskIds : ~InFlight(tasks[t])

\* the handlers of requests are all done
HandlersDone == \A t \in TaskIds : InFlight(tasks[t]) => tasks[t].auto

Commit(t, r) ==
  /\ enabled_servers' = r.g.enabled
  /\ servers' = r.g.servers
  /\ conn' = r.g.conn
  /\ ctxs' = r.g.ctxs
  /\ tasks' = [u \in TaskIds |-> IF u = t THEN r.tk ELSE Forget(r.g.tasks[u])]
  /\ phase' = IF r.tk.op # "shutdown" THEN phase
              ELSE IF r.tk.pc = "returned" THEN "stopped" ELSE "stopping"
  /\ sessions' = r.g.sessions
  /\ minted' = r.g.minted
  /\ UNCHANGED configs

\* a segment of coroutine t ends in r; the auto-enable loop goes on in the
\* same segment when its enable_server has returned
Apply(t, r) == \E q \in AutoNext(r) : Commit(t, AfterCall(q))

\* a handler starts: the first segment of its coroutine runs
Start(t, r) ==
  /\ Apply(t, r)
  /\ IF InFlight(r.tk) \/ r.g # G
     THEN nops < MaxOps /\ nops' = nops + 1
     ELSE nops' = nops

\* a suspended coroutine resumes
Resume(t, r) == Apply(t, r) /\ UNCHANGED nops

Init ==
  /\ configs \in Configs
  /\ enabled_servers = {}
  /\ servers = <<>>
  /\ conn = [c \in ConfigIds |-> NewConn]
  /\ ctxs = [k \in CtxIds |-> NoCtx]
  /\ tasks = [t \in TaskIds |-> IdleTask]
  /\ nops = 0
  /\ sessions = <<>>
  /\ minted = 0
  /\ base = G
  /\ issued = <<>>
  /\ phase = "serving"

\* a request handler calls manager.enable_server(id)
EnableStart(t) ==
  /\ phase = "serving" /\ Free(t)
  /\ \E id \in AllIds : \E r \in EnableServer(G, IdleTask, id) : Start(t, r)

\* a request handler calls manager.disable_server(id)
DisableStart(t) ==
  /\ phase = "serving" /\ Free(t)
  /\ \E id \in AllIds : \E r \in DisableServer(G, IdleTask, id) : Start(t, r)

\* a request handler calls manager.call_tool(id, tool, arguments)
CallStart(t) ==
  /\ phase = "serving" /\ Free(t)
  /\ \E id \in AllIds, tool \in ToolNames : \E r \in CallTool(G, IdleTask, id, tool) : Start(t, r)

\* the lifespan leaves its yield once the request handlers are done
ShutdownStart(t) ==
  /\ phase = "serving" /\ HandlersDone
  /\ LET g == CancelAuto(G) IN
       /\ ~InFlight(g.tasks[t]) /\ \A u \in TaskIds : u < t => InFlight(g.tasks[u])
       /\ \E r \in Shutdown(g, IdleTask) : Apply(t, r) /\ UNCHANGED nops

\* the event loop runs the auto-enable task for the first time
AutoStart(t) ==
  /\ tasks[t].pc = "ready"
  /\ \E r \in AutoLoop(G, tasks[t], 1) : Commit(t, r) /\ UNCHANGED nops

SpawnStep(t) ==
  tasks[t].pc = "spawn" /\ \E r \in SpawnReturn(G, tasks[t]) : Resume(t, r)
SessEnterStep(t) ==
  tasks[t].pc = "sess_enter" /\ \E r \in SessEnterReturn(G, tasks[t]) : Resume(t, r)
InitStep(t) ==
  tasks[t].pc = "init" /\ \E r \in InitReturn(G, tasks[t]) : Resume(t, r)
ListStep(t) ==
  tasks[t].pc = "list" /\ \E r \in ListReturn(G, tasks[t]) : Resume(t, r)
SessExitStep(t) ==
  tasks[t].pc = "sess_exit" /\ \E r \in SessExitReturn(G, tasks[t]) : Resume(t, r)
StdioExitStep(t) ==
  tasks[t].pc = "stdio_exit" /\ \E r \in StdioExitReturn(G, tasks[t]) : Resume(t, r)
CallStep(t) ==
  tasks[t].pc = "call" /\ \E r \in CallReturn(G, tasks[t]) : Resume(t, r)

JsonStep(t) ==
  tasks[t].pc = "json" /\ \E r \in JsonReturn(G, tasks[t]) : Resume(t, r)

\* a client sends POST /mcp
McpPostStart(t) ==
  /\ phase = "serving" /\ Free(t)
  /\ \E hdr \in Hdrs : \E r \in McpPost(G, IdleTask, hdr) : Start(t, r)

\* a client sends DELETE /mcp
McpDeleteStart(t) ==
  /\ phase = "serving" /\ Free(t)
  /\ \E hdr \in Hdrs : \E r \in McpDelete(G, IdleTask, hdr) : Start(t, r)

\* a client sends POST /api/tools/{server_id}/{tool_name}
RestCallStart(t) ==
  /\ phase = "serving" /\ Free(t)
  /\ \E id \in AllIds, tool \in ToolNames :
       \E r \in RestCallTool(G, IdleTask, id, tool) : Start(t, r)

\* a client sends POST /tools/{server_id}/{tool_name}
ExecToolStart(t) ==
  /\ phase = "serving" /\ Free(t)
  /\ \E id \in AllIds, tool \in ToolNames :
       \E r \in ExecuteTool(G, IdleTask, id, tool) : Start(t, r)

\* the caller has its answer: the handler is over
Reap(t) ==
  /\ tasks[t].pc = "returned"
  /\ tasks' = [u \in TaskIds |-> Forget(tasks[u])]
  /\ UNCHANGED <<configs, enabled_servers, servers, conn, ctxs, nops, phase, sessions, minted>>

\* a child process exits on its own
ChildExit(k) ==
  /\ ctxs[k].proc = "alive"
  /\ ctxs' = [ctxs EXCEPT ![k].proc = "exited"]
  /\ tasks' = [u \in TaskIds |-> Forget(tasks[u])]
  /\ UNCHANGED <<configs, enabled_servers, servers, conn, nops, phase, sessions, minted>>

hist == <<base, issued>>

Next ==
  \/ \E t \in TaskIds : EnableStart(t) /\ UNCHANGED hist
  \/ \E t \in TaskIds : DisableStart(t) /\ UNCHANGED hist
  \/ \E t \in TaskIds : CallStart(t) /\ UNCHANGED hist
  \/ \E t \in TaskIds : ShutdownStart(t) /\ UNCHANGED hist
  \/ \E t \in TaskIds : SpawnStep(t) /\ UNCHANGED hist
  \/ \E t \in TaskIds : SessEnterStep(t) /\ UNCHANGED hist
  \/ \E t \in TaskIds : InitStep(t) /\ UNCHANGED hist
  \/ \E t \in TaskIds : ListStep(t) /\ UNCHANGED hist
  \/ \E t \in TaskIds : SessExitStep(t) /\ UNCHANGED hist
  \/ \E t \in TaskIds : StdioExitStep(t) /\ UNCHANGED hist
  \/ \E t \in TaskIds : CallStep(t) /\ UNCHANGED hist
  \/ \E t \in TaskIds : Reap(t) /\ UNCHANGED hist
  \/ \E k \in CtxIds : ChildExit(k) /\ UNCHANGED hist

Spec == Init /\ [][Next]_vars

\* ------------------------------------------------------ serial runs ----
\* the resumption of a suspended coroutine, by its position
StepSet(g, tk) ==
  CASE tk.pc = "spawn" -> SpawnReturn(g, tk)
    [] tk.pc = "sess_enter" -> SessEnterReturn(g, tk)
    [] tk.pc = "init" -> InitReturn(g, tk)
    [] tk.pc = "list" -> ListReturn(g, tk)
    [] tk.pc = "sess_exit" -> SessExitReturn(g, tk)
    [] tk.pc = "stdio_exit" -> StdioExitReturn(g, tk)
    [] tk.pc = "call" -> CallReturn(g, tk)
    [] tk.pc = "json" -> JsonReturn(g, tk)

\* the states in which a coroutine can return when it runs alone
RECURSIVE RunTask(_)
RunTask(r) ==
  IF r.tk.pc = "returned" THEN {r.g}
  ELSE UNION { RunTask(r2) : r2 \in StepSet(r.g, r.tk) }

\* one call run alone, from its start to its return
RunOp(g, o) ==
  UNION { RunTask(r) :
            r \in IF o.op = "enable" THEN EnableServer(g, IdleTask, o.id)
                  ELSE DisableServer(g, IdleTask, o.id) }

\* the calls of a sequence run one after the other
RECURSIVE RunSeq(_, _)
RunSeq(g, os) ==
  IF os = <<>> THEN {g}
  ELSE UNION { RunSeq(g2, Tail(os)) : g2 \in RunOp(g, Head(os)) }

\* the orders in which the calls of a sequence can be run
Orders(os) ==
  { [j \in 1..Len(os) |-> os[p[j]]] :
      p \in { q \in [1..Len(os) -> 1..Len(os)] : \A x, y \in 1..Len(os) : x # y => q[x] # q[y] } }

SerialFinals(g, os) == UNION { RunSeq(g, o) : o \in Orders(os) }

\* the processes of child c that are being spawned or are alive
Procs(g, c) ==
  { k \in CtxIds : g.ctxs[k].owner = c /\ g.ctxs[k].proc \in {"spawning", "alive", "closing"} }

\* what an observer sees of child c
Observable(g, c) ==
  [status |-> g.conn[c].status, enabled |-> c \in g.enabled, tools |-> g.conn[c].tools]
ObservableAll(g, c) ==
  [status |-> g.conn[c].status, enabled |-> c \in g.enabled, tools |-> g.conn[c].tools,
   procs |-> Cardinality(Procs(g, c))]

\* an enable or disable call starts: it joins the calls issued since the last
\* state in which no handler was in flight
Track(t) ==
  LET o == [op |-> tasks'[t].op, id |-> tasks'[t].id] IN
  IF Quiescent
  THEN base' = [G EXCEPT !.tasks = [u \in TaskIds |-> IdleTask]] /\ issued' = <<o>>
  ELSE Len(issued) < MaxBatch /\ issued' = Append(issued, o) /\ UNCHANGED base

\* --------------------------------------------------------- lifespan ----
\* MCP_GATEWAY_AUTO_ENABLE, split and stripped (lines 73-74)
AutoLists == { <<"b", "a">>, <<"a", "x", "b">> }

\* lifespan up to its yield: the manager is built, the configuration loaded and
\* the auto-enable task created (lines 69-77)
InitLife ==
  /\ configs \in Configs
  /\ enabled_servers = {}
  /\ servers = <<>>
  /\ conn = [c \in ConfigIds |-> NewConn]
  /\ ctxs = [k \in CtxIds |-> NoCtx]
  /\ \E l \in AutoLists :
       tasks = [t \in TaskIds |->
                  IF t = 1 THEN [IdleTask EXCEPT !.op = "auto", !.pc = "ready",
                                                 !.auto = TRUE, !.list = l]
                  ELSE IdleTask]
  /\ nops = 0
  /\ sessions = <<>>
  /\ minted = 0
  /\ base = G
  /\ issued = <<>>
  /\ phase = "serving"

\* the auto-enable task beside handlers that disable and call, then shutdown
NextAuto ==
  \/ \E t \in TaskIds : AutoStart(t) /\ UNCHANGED hist
  \/ \E t \in TaskIds : DisableStart(t) /\ UNCHANGED hist
  \/ \E t \in TaskIds : CallStart(t) /\ UNCHANGED hist
  \/ \E t \in TaskIds : ShutdownStart(t) /\ UNCHANGED hist
  \/ \E t \in TaskIds : SpawnStep(t) /\ UNCHANGED hist
  \/ \E t \in TaskIds : SessEnterStep(t) /\ UNCHANGED hist
  \/ \E t \in TaskIds : InitStep(t) /\ UNCHANGED hist
  \/ \E t \in TaskIds : ListStep(t) /\ UNCHANGED hist
  \/ \E t \in TaskIds : SessExitStep(t) /\ UNCHANGED hist
  \/ \E t \in TaskIds : StdioExitStep(t) /\ UNCHANGED hist
  \/ \E t \in TaskIds : CallStep(t) /\ UNCHANGED hist
  \/ \E t \in TaskIds : Reap(t) /\ UNCHANGED hist
  \/ \E k \in CtxIds : ChildExit(k) /\ UNCHANGED hist

SpecAuto == InitLife /\ [][NextAuto]_vars

\* the transport and the REST tool endpoints beside enable calls
InitHttp ==
  /\ configs \in HttpConfigs
  /\ enabled_servers = {}
  /\ servers = <<>>
  /\ conn = [c \in ConfigIds |-> NewConn]
  /\ ctxs = [k \in CtxIds |-> NoCtx]
  /\ tasks = [t \in TaskIds |-> IdleTask]
  /\ nops = 0
  /\ sessions = <<>>
  /\ minted = 0
  /\ base = G
  /\ issued = <<>>
  /\ phase = "serving"

NextHttp ==
  \/ \E t \in TaskIds : EnableStart(t) /\ UNCHANGED hist
  \/ \E t \in TaskIds : McpPostStart(t) /\ UNCHANGED hist
  \/ \E t \in TaskIds : McpDeleteStart(t) /\ UNCHANGED hist
  \/ \E t \in TaskIds : RestCallStart(t) /\ UNCHANGED hist
  \/ \E t \in TaskIds : ExecToolStart(t) /\ UNCHANGED hist
  \/ \E t \in TaskIds : JsonStep(t) /\ UNCHANGED hist
  \/ \E t \in TaskIds : SpawnStep(t) /\ UNCHANGED hist
  \/ \E t \in TaskIds : SessEnterStep(t) /\ UNCHANGED hist
  \/ \E t \in TaskIds : InitStep(t) /\ UNCHANGED hist
  \/ \E t \in TaskIds : ListStep(t) /\ UNCHANGED hist
  \/ \E t \in TaskIds : SessExitStep(t) /\ UNCHANGED hist
  \/ \E t \in TaskIds : StdioExitStep(t) /\ UNCHANGED hist
  \/ \E t \in TaskIds : CallStep(t) /\ UNCHANGED hist
  \/ \E t \in TaskIds : Reap(t) /\ UNCHANGED hist

SpecHttp == InitHttp /\ [][NextHttp]_vars

\* enable and disable calls alone, with the calls of each batch recorded
NextBatch ==
  \/ \E t \in TaskIds : EnableStart(t) /\ Track(t)
  \/ \E t \in TaskIds : DisableStart(t) /\ Track(t)
  \/ \E t \in TaskIds : SpawnStep(t) /\ UNCHANGED hist
  \/ \E t \in TaskIds : SessEnterStep(t) /\ UNCHANGED hist
  \/ \E t \in TaskIds : InitStep(t) /\ UNCHANGED hist
  \/ \E t \in TaskIds : ListStep(t) /\ UNCHANGED hist
  \/ \E t \in TaskIds : SessExitStep(t) /\ UNCHANGED hist
  \/ \E t \in TaskIds : StdioExitStep(t) /\ UNCHANGED hist
  \/ \E t \in TaskIds : Reap(t) /\ UNCHANGED hist

SpecBatch == Init /\ [][NextBatch]_vars

\* enable and disable calls alone, under the scheduling of the event loop: a
\* coroutine whose await only waits for the gateway's own work (the spawn, the
\* entry and the exit of a context) resumes, and so does one that waits for the
\* answer of a reliable peer; nothing makes any other peer answer
NextLife ==
  \/ \E t \in TaskIds : EnableStart(t) /\ UNCHANGED hist
  \/ \E t \in TaskIds : DisableStart(t) /\ UNCHANGED hist
  \/ \E t \in TaskIds : SpawnStep(t) /\ UNCHANGED hist
  \/ \E t \in TaskIds : SessEnterStep(t) /\ UNCHANGED hist
  \/ \E t \in TaskIds : InitStep(t) /\ UNCHANGED hist
  \/ \E t \in TaskIds : ListStep(t) /\ UNCHANGED hist
  \/ \E t \in TaskIds : SessExitStep(t) /\ UNCHANGED hist
  \/ \E t \in TaskIds : StdioExitStep(t) /\ UNCHANGED hist
  \/ \E t \in TaskIds : Reap(t) /\ UNCHANGED hist

Fairness ==
  \A t \in TaskIds :
    /\ WF_vars(SpawnStep(t) /\ UNCHANGED hist)
    /\ WF_vars(SessEnterStep(t) /\ UNCHANGED hist)
    /\ WF_vars(SessExitStep(t) /\ UNCHANGED hist)
    /\ WF_vars(StdioExitStep(t) /\ UNCHANGED hist)
    /\ WF_vars(tasks[t].id \in Reliable /\ InitStep(t) /\ UNCHANGED hist)
    /\ WF_vars(tasks[t].id \in Reliable /\ ListStep(t) /\ UNCHANGED hist)

FairSpec == Init /\ [][NextLife]_vars /\ Fairness

\* enable and disable on a configuration with secret commands
InitSecrets ==
  /\ configs \in SecretConfigs
  /\ enabled_servers = {}
  /\ servers = <<>>
  /\ conn = [c \in ConfigIds |-> NewConn]
  /\ ctxs = [k \in CtxIds |-> NoCtx]
  /\ tasks = [t \in TaskIds |-> IdleTask]
  /\ nops = 0
  /\ sessions = <<>>
  /\ minted = 0
  /\ base = G
  /\ issued = <<>>
  /\ phase = "serving"

SpecSecrets == InitSecrets /\ [][NextLife]_vars

\* enable, disable and call handlers under the scheduling of the event loop:
\* as FairSpec, and a call on a reliable peer is answered
NextIndep ==
  \/ \E t \in TaskIds : EnableStart(t) /\ UNCHANGED hist
  \/ \E t \in TaskIds : DisableStart(t) /\ UNCHANGED hist
  \/ \E t \in TaskIds : CallStart(t) /\ UNCHANGED hist
  \/ \E t \in TaskIds : SpawnStep(t) /\ UNCHANGED hist
  \/ \E t \in TaskIds : SessEnterStep(t) /\ UNCHANGED hist
  \/ \E t \in TaskIds : InitStep(t) /\ UNCHANGED hist
  \/ \E t \in TaskIds : ListStep(t) /\ UNCHANGED hist
  \/ \E t \in TaskIds : SessExitStep(t) /\ UNCHANGED hist
  \/ \E t \in TaskIds : StdioExitStep(t) /\ UNCHANGED hist
  \/ \E t \in TaskIds : CallStep(t) /\ UNCHANGED hist
  \/ \E t \in TaskIds : Reap(t) /\ UNCHANGED hist

FairnessIndep ==
  /\ Fairness
  /\ \A t \in TaskIds : WF_vars(tasks[t].id \in Reliable /\ CallStep(t) /\ UNCHANGED hist)

FairIndepSpec == Init /\ [][NextIndep]_vars /\ FairnessIndep

\* ------------------------------------------------------------- claims ----
Returned(t, op) == tasks[t].pc = "returned" /\ tasks[t].op = op

\* the manager's state with every handler done
AtRest(g) == [g EXCEPT !.tasks = [u \in TaskIds |-> IdleTask]]

\* coroutine t has run in this step
Acting(t) == tasks'[t] # Forget(tasks[t])

\* no coroutine but t is working on child c
Alone(t, c) == \A u \in TaskIds \ {t} : ~(InFlight(tasks[u]) /\ tasks[u].id = c)

\* the position of id in the insertion order of servers
Pos(g, id) == CHOOSE j \in 1..Len(g.servers) : g.servers[j] = id

\* C1: a child whose tool catalog is not empty is Connected, and no reader
\* (get_all_tools, get_tool_schema, get_server_info) shows tools of a child
\* that is not Connected.
C1_CatalogOnlyWhenConnected ==
  \A c \in ConfigIds :
    /\ conn[c].tools # {} => conn[c].status = "connected"
    /\ GetServerInfo(G, c).tools # {} => GetServerInfo(G, c).status = "connected"
    /\ \A tool \in ToolNames :
         (GetToolSchema(G, c, tool) \/ <<c, tool>> \in GetAllTools(G))
           => conn[c].status = "connected"

\* C2: at most one child process per id is alive or being spawned.
C2_AtMostOneProcess ==
  \A c \in ConfigIds : Cardinality(Procs(G, c)) <= 1

\* C3: a child that is Connected has its id in the enabled-set.
C3_ConnectedImpliesEnabled ==
  \A c \in ConfigIds : conn[c].status = "connected" => c \in enabled_servers

\* C4: enable_server returns True exactly when the child is Connected at
\* the moment of the return.
C4_EnableSuccessIffConnected ==
  \A t \in TaskIds :
    Returned(t, "enable") =>
      (tasks[t].ret = "True" <=> GetServerInfo(G, tasks[t].id).status = "connected")

\* C5: when enable_server has returned False for a configured id (the
\* connect failed), the child is in Error and its error message is set.
C5_FailedEnableIsError ==
  \A t \in TaskIds :
    (Returned(t, "enable") /\ tasks[t].ret = "False" /\ tasks[t].id \in ConfigIds) =>
      (conn[tasks[t].id].status = "error" /\ conn[tasks[t].id].error # NoError)

\* C8: when a tool call returns after the child process of its session has
\* exited, the caller gets an error and the child's status is Error.
C8_PeerCrashIsError ==
  \A t \in TaskIds :
    (Returned(t, "call") /\ tasks[t].k # 0 /\ ctxs[tasks[t].k].proc = "exited") =>
      (tasks[t].ret = "CallFailed" /\ conn[tasks[t].id].status = "error")

\* C10: once the shutdown of the process has completed, no child process is
\* alive.
C10_ShutdownReapsAll ==
  phase = "stopped" => \A c \in ConfigIds : Procs(G, c) = {}

\* the calls of the batch are all calls on child c
BatchOn(c) == issued # <<>> /\ \A j \in 1..Len(issued) : issued[j].id = c

\* C6: once all the concurrent enable and disable calls on one child have
\* returned, the child's state (status, enabled flag, catalog, live processes)
\* is the final state of some serial run of the same calls.
C6_ConcurrentEqualsSerial ==
  \A c \in ConfigIds :
    (Quiescent /\ BatchOn(c)) =>
      ObservableAll(G, c) \in { ObservableAll(g, c) : g \in SerialFinals(base, issued) }

\* C7: once two concurrent enable calls on one child have both returned, the
\* observable state (status, enabled flag, catalog) is the state reached by
\* running the two calls one after the other.
C7_TwoEnablesEqualSerial ==
  \A c \in ConfigIds :
    (Quiescent /\ BatchOn(c) /\ Len(issued) = 2 /\ \A j \in 1..2 : issued[j].op = "enable") =>
      Observable(G, c) \in { Observable(g, c) : g \in SerialFinals(base, issued) }

\* two concurrent enable calls on b have returned, and b is Connected
C7_Witness ==
  /\ Quiescent /\ BatchOn("b") /\ Len(issued) = 2
  /\ \A j \in 1..2 : issued[j].op = "enable"
  /\ conn["b"].status = "connected" /\ conn["b"].tools # {}

\* C9: a child that is Connecting leaves Connecting, and a call of
\* enable_server returns.
C9_ConnectTerminates ==
  /\ \A c \in ConfigIds : (conn[c].status = "connecting") ~> (conn[c].status # "connecting")
  /\ \A t \in TaskIds :
       (tasks[t].op = "enable" /\ InFlight(tasks[t])) ~> ~InFlight(tasks[t])

\* C11: a shutdown that ends has called disconnect on every connection, has
\* returned normally whatever the exits of the contexts raised, and leaves the
\* enabled-set empty.
C11_ShutdownBestEffort ==
  [][\A t \in TaskIds :
       (Acting(t) /\ tasks'[t].op = "shutdown" /\ tasks'[t].pc = "returned") =>
         (tasks'[t].ret = "None" /\ tasks'[t].i = Len(servers) /\ enabled_servers' = {})]_vars

\* shutdown is disconnecting its second connection after an exit of the first
\* one has raised
C11_Witness ==
  \E t \in TaskIds :
    /\ tasks[t].op = "shutdown" /\ tasks[t].pc = "sess_exit"
    /\ tasks[t].i = 2 /\ tasks[t].caught

\* C12: once the lifespan has started manager.shutdown(), the auto-enable
\* task is over: no coroutine of it is suspended, so none resumes or starts.
C12_AutoEnableEndsBeforeShutdown ==
  phase # "serving" => \A t \in TaskIds : ~(tasks[t].auto /\ InFlight(tasks[t]))

\* shutdown runs after the auto-enable task was cancelled in a handshake
C12_Witness ==
  /\ phase = "stopping"
  /\ \E c \in ConfigIds : conn[c].status = "connecting"

\* C13: when the auto-enable loop ends, it has gone through its whole list:
\* every configured id of the list has a connection, and the connections were
\* created in list order, whichever enables failed.
C13_AutoEnableContinues ==
  \A t \in TaskIds :
    Returned(t, "auto") =>
      LET l == tasks[t].list
          Conf == { j \in 1..Len(l) : l[j] \in ConfigIds }
      IN  /\ tasks[t].i = Len(l) + 1
          /\ \A j \in Conf : l[j] \in Range(servers)
          /\ \A j, j2 \in Conf : j < j2 => Pos(G, l[j]) < Pos(G, l[j2])

\* the loop has ended, the enable of b has failed and the later a is Connected
C13_Witness ==
  \E t \in TaskIds :
    /\ Returned(t, "auto") /\ tasks[t].list = <<"b", "a">>
    /\ conn["b"].error # NoError /\ conn["b"].status # "connected"
    /\ conn["a"].status = "connected"

\* C14: a step of an enable, disable or call on child a leaves the connection
\* (status, catalog, session, error), the session's peer and the enabled flag
\* of every other child b unchanged.
C14_OtherChildUntouched ==
  [][\A t \in TaskIds :
       (Acting(t) /\ tasks'[t].op \in {"enable", "disable", "call"}) =>
         \A b \in ConfigIds \ {tasks'[t].id} :
           /\ conn'[b] = conn[b]
           /\ (b \in enabled_servers') = (b \in enabled_servers)
           /\ conn[b].session # 0 => ctxs'[conn[b].session] = ctxs[conn[b].session]]_vars

\* the enable of b has failed while a is Connected with its catalog
C14_Witness ==
  \E t \in TaskIds :
    /\ Returned(t, "enable") /\ tasks[t].id = "b" /\ tasks[t].ret = "False"
    /\ conn["a"].status = "connected" /\ conn["a"].tools = Catalog["a"]

Cycle(c) ==
  << [op |-> "enable", id |-> c], [op |-> "disable", id |-> c], [op |-> "enable", id |-> c] >>

C18_DisableLeavesNothing ==
  \A t \in TaskIds :
    (Returned(t, "disable") /\ tasks[t].id \in ConfigIds /\ Alone(t, tasks[t].id)) =>
      LET c == tasks[t].id IN
      /\ c \notin enabled_servers
      /\ conn[c].status = "disconnected" /\ conn[c].tools = {}
      /\ conn[c].session = 0 /\ conn[c].sctx = 0 /\ conn[c].stdio = 0
      /\ Procs(G, c) = {}
      /\ Quiescent => RunOp(AtRest(G), [op |-> "disable", id |-> c]) = {AtRest(G)}

\* C19: when disable(c) has returned and no other coroutine works on c, a
\* call of a tool of c raises the not-connected error; when shutdown has
\* returned, a call on any id raises the not-found error.
C19_CallAfterDisable ==
  /\ \A t \in TaskIds :
       (Returned(t, "disable") /\ tasks[t].id \in ConfigIds /\ Alone(t, tasks[t].id)) =>
         \A tool \in ToolNames : \A r \in CallTool(G, IdleTask, tasks[t].id, tool) :
           r.tk.ret = "NotConnected"
  /\ phase = "stopped" =>
       \A id \in AllIds, tool \in ToolNames : \A r \in CallTool(G, IdleTask, id, tool) :
         r.tk.ret = "NotFound"

\* C20: get_all_tools lists the pair (c, tool) exactly when c is Connected
\* and tool is in the catalog of c.
C20_AllToolsOfConnected ==
  \A c \in ConfigIds, tool \in ToolNames :
    <<c, tool>> \in GetAllTools(G) <=> (conn[c].status = "connected" /\ tool \in conn[c].tools)

\* ------------------------------------------------- transport claims ----
\* the session ids minted so far
Minted == { Token(n) : n \in 1..minted }

\* a POST /mcp handler has answered
Answered(t) == tasks[t].pc = "returned" /\ tasks[t].op = "post"

\* the request of handler t came without a session: no header, or a header
\* that named no session when the handler looked it up
NoSession(t) ==
  \/ tasks[t].req.sess = ""
  \/ tasks[t].req.hdr = ""
  \/ tasks[t].req.hdr \notin Minted

\* C21: a request (a message with an id) other than initialize whose
\* Mcp-Session-Id header is missing or names no existing session is answered
\* with HTTP 400 and error code -32600, and its handler never calls the manager.
C21_SessionRequired ==
  \A t \in TaskIds :
    (tasks[t].op = "post" /\ NoSession(t)) =>
      /\ tasks[t].pc # "call"
      /\ tasks[t].mgr = <<>>
      /\ (Answered(t) /\ tasks[t].req.msg.id # None /\ tasks[t].req.msg.method # "initialize") =>
            /\ tasks[t].reply.status = 400
            /\ tasks[t].reply.kind = "error"
            /\ tasks[t].reply.code = InvalidRequest

C21_Witness ==
  \E t \in TaskIds :
    /\ Answered(t) /\ tasks[t].req.hdr = "s1" /\ tasks[t].req.sess = ""
    /\ tasks[t].req.msg.jsonrpc = "2.0" /\ tasks[t].req.msg.id = "7"
    /\ tasks[t].req.msg.method = "tools/call"
    /\ tasks[t].reply.code = InvalidRequest
    /\ \E c \in ConfigIds : conn[c].status = "connected"

\* handler t handles in this step a notifications/initialized notification
\* whose header named session s when the handler looked it up
Notifies(t, s) ==
  /\ tasks[t].op = "post" /\ tasks[t].pc = "json" /\ tasks'[t].pc = "returned"
  /\ tasks[t].req.sess = s
  /\ tasks'[t].req.msg = [NoMsg EXCEPT !.jsonrpc = "2.0", !.method = "notifications/initialized"]

\* C22: a session starts with initialized = false; the flag of an existing
\* session becomes true in the step that handles a notifications/initialized
\* notification carrying its id, and no other step changes it.
C22_InitializedFlag ==
  [][ \A s \in DOMAIN sessions' :
        IF s \notin DOMAIN sessions
        THEN ~sessions'[s].initialized
        ELSE sessions'[s].initialized <=>
               (sessions[s].initialized \/ \E t \in TaskIds : Notifies(t, s)) ]_vars

C22_Witness ==
  \E s \in DOMAIN sessions :
    /\ sessions[s].initialized
    /\ \E t \in TaskIds :
         /\ Answered(t) /\ tasks[t].req.sess = s /\ tasks[t].reply.status = 202
         /\ tasks[t].req.msg.method = "notifications/initialized"

\* handler t handles in this step a request with method m
Handles(t, m) ==
  /\ tasks[t].op = "post" /\ tasks[t].pc = "json" /\ tasks'[t].pc # "json"
  /\ tasks'[t].req.msg.jsonrpc = "2.0" /\ tasks'[t].req.msg.id # None
  /\ tasks'[t].req.msg.method = m

\* C23: every initialize request adds one session to the table, under an id
\* that no existing session has, answers 200 with that id in the
\* Mcp-Session-Id header, whatever session id the request carried, and the new
\* session has initialized = false.
C23_InitializeMintsSession ==
  [][ \A t \in TaskIds :
        Handles(t, "initialize") =>
          LET sid == tasks'[t].reply.header IN
          /\ tasks'[t].reply.status = 200
          /\ tasks'[t].reply.kind = "result"
          /\ sid # "" /\ sid \notin DOMAIN sessions
          /\ DOMAIN sessions' = DOMAIN sessions \cup {sid}
          /\ ~sessions'[sid].initialized
          /\ \A s \in DOMAIN sessions : sessions'[s] = sessions[s] ]_vars

C23_Witness ==
  \E t \in TaskIds :
    /\ Answered(t) /\ tasks[t].req.msg.method = "initialize" /\ tasks[t].req.msg.id = "7"
    /\ tasks[t].req.sess = "s1" /\ tasks[t].reply.header = "s2"
    /\ DOMAIN sessions = {"s1", "s2"}
    /\ sessions["s1"].initialized /\ ~sessions["s2"].initialized

\* session id s was minted and its session has been deleted
Deleted(s) == s \in Minted /\ s \notin DOMAIN sessions

\* C24: DELETE /mcp with the id of an existing session removes that session and
\* no other and answers 204; with a missing or unknown id it answers 404 and
\* removes nothing.  A handler that starts with the id of a deleted session
\* finds no session: a DELETE answers 404, a request that is not initialize is
\* answered 400 with -32600.
C24_DeleteSession ==
  [][ \A t \in TaskIds :
        /\ (Acting(t) /\ tasks'[t].op = "delete") =>
              LET s == tasks'[t].req.hdr IN
              IF s \in DOMAIN sessions
              THEN /\ tasks'[t].reply.status = 204
                   /\ DOMAIN sessions' = DOMAIN sessions \ {s}
                   /\ \A x \in DOMAIN sessions' : sessions'[x] = sessions[x]
              ELSE /\ tasks'[t].reply.status = 404
                   /\ sessions' = sessions
        /\ (Acting(t) /\ tasks'[t].op = "post" /\ ~InFlight(tasks[t])
               /\ Deleted(tasks'[t].req.hdr)) => tasks'[t].req.sess = ""
        /\ (Handles(t, tasks'[t].req.msg.method) /\ tasks[t].req.sess = ""
               /\ tasks'[t].req.msg.method # "initialize") =>
              /\ tasks'[t].reply.status = 400
              /\ tasks'[t].reply.code = InvalidRequest ]_vars

C24_Witness ==
  /\ Deleted("s1")
  /\ "s2" \in DOMAIN sessions
  /\ \E t \in TaskIds :
       /\ tasks[t].op = "delete" /\ tasks[t].pc = "returned"
       /\ tasks[t].req.hdr = "s1" /\ tasks[t].reply.status = 404

\* handler t has answered a message it could parse
AnsweredMsg(t) == Answered(t) /\ tasks[t].req.msg # NoMsg

\* C25: every JSON-RPC response body sent for a message that carried an id has
\* that id, in results and in errors.
C25_ResponseIdPreserved ==
  \A t \in TaskIds :
    (AnsweredMsg(t) /\ tasks[t].req.msg.id # None /\ tasks[t].reply.kind # "none") =>
      tasks[t].reply.id = tasks[t].req.msg.id

\* C26: a message without an id is answered 202 with an empty body, whatever
\* its method and the rest of its envelope.
C26_NotificationNoBody ==
  \A t \in TaskIds :
    (AnsweredMsg(t) /\ tasks[t].req.msg.id = None) =>
      tasks[t].reply.status = 202 /\ tasks[t].reply.kind = "none"

\* the name tools/list gives to tool p[2] of child p[1]
ListedName(p) == Namespaced(configs[p[1]].key, ToolSpell[p[2]])

\* C27: every name of tools/list splits at the first "__" into the child id and
\* the tool name it was built from, so that a tools/call with it reaches that
\* tool of that child; no configured child id contains "__".
C27_NamespacedRoundTrip ==
  /\ \A p \in GetAllTools(G) :
       /\ Split(ListedName(p)) = <<configs[p[1]].key, ToolSpell[p[2]]>>
       /\ Resolve(G, Split(ListedName(p))[1]) = p[1]
       /\ ToolOf(Split(ListedName(p))[2]) = p[2]
  /\ \A c \in DOMAIN configs : FirstSep(configs[c].key) = 0

\* handler t of a tool call has answered after manager.call_tool ended with ret
ToolAnswered(t, ret) ==
  /\ tasks[t].pc = "returned" /\ tasks[t].op \in {"post", "api", "tools"}
  /\ tasks[t].ret = ret

\* C28: a tools/call that names a child that does not exist, or a tool that is
\* not in the child's catalog, is answered with JSON-RPC error code -32602.
C28_UnknownTargetInvalidParams ==
  \A t \in TaskIds :
    (tasks[t].op = "post" /\ (ToolAnswered(t, "NotFound") \/ ToolAnswered(t, "ToolNotFound"))) =>
      tasks[t].reply.kind = "error" /\ tasks[t].reply.code = InvalidParams

\* C29: a tool call to a known child that is not Connected is answered with
\* JSON-RPC error code -32603 by the transport and with HTTP status 409 by the
\* REST tool endpoints.
C29_NotConnectedSurfaced ==
  \A t \in TaskIds :
    ToolAnswered(t, "NotConnected") =>
      IF tasks[t].op = "post"
      THEN tasks[t].reply.kind = "error" /\ tasks[t].reply.code = InternalError
      ELSE tasks[t].reply.status = 409

\* C30: when the child answers a tool call with a JSON-RPC error, the
\* transport's error response carries the child's code and message, and the
\* REST tool endpoints answer HTTP 500 with the message.
C30_PeerErrorSurfaced ==
  \A t \in TaskIds :
    ToolAnswered(t, "PeerError") =>
      IF tasks[t].op = "post"
      THEN /\ tasks[t].reply.kind = "error"
           /\ tasks[t].reply.code = PeerErr.code
           /\ tasks[t].reply.text = <<PeerErr.message>>
      ELSE /\ tasks[t].reply.status = 500
           /\ PeerErr.message \in Range(tasks[t].reply.text)

\* C31: the content array a transport client gets from tools/call equals the
\* child's content array element for element: the rewriting of the elements
\* that are not text is applied to the answers of the REST endpoints only.
C31_TransportContentVerbatim ==
  \A t \in TaskIds :
    ToolAnswered(t, "Result") /\ tasks[t].op = "post" =>
      tasks[t].reply.content = PeerContent[tasks[t].id]
\* C32: a secret command that fails (exit not 0, timeout, or it cannot be
\* started) leaves its variable out of the secrets given to the child, the
\* commands after it are still run and give theirs, and the connect goes on:
\* run alone on a reachable child it ends Connected however the commands end.
C32_SecretFailureSkipped ==
  /\ \A k \in CtxIds :
        ctxs[k].owner # "" =>
          LET pc == configs[ctxs[k].owner].password_command IN
          /\ Len(ctxs[k].exits) = Len(pc)
          /\ ctxs[k].env = { pc[j] : j \in { i \in 1..Len(pc) : ctxs[k].exits[i] = "ok" } }
  /\ \A c \in Reliable :
        (Quiescent /\ c \notin enabled_servers /\ conn[c].session = 0 /\ FreeCtx(G) # {}) =>
          LET F == RunOp(G, [op |-> "enable", id |-> c]) IN
          /\ \A g \in F : g.conn[c].status = "connected"
          /\ \A e \in [1..Len(configs[c].password_command) -> CmdOutcomes] :
                \E g \in F : g.ctxs[g.conn[c].session].exits = e

\* child a is Connected on a process that was started without TOKEN, whose
\* command failed, and with KEY, whose command ran after it
C32_Witness ==
  \E k \in CtxIds :
    /\ conn["a"].status = "connected" /\ conn["a"].session = k
    /\ ctxs[k].owner = "a" /\ ctxs[k].proc = "alive"
    /\ ctxs[k].exits[1] # "ok" /\ ctxs[k].exits[2] = "ok"
    /\ ctxs[k].env = {"KEY"}
\* C33: when the tools/list of the handshake fails the child does not become
\* Connected: a connect that ends Connected has populated the catalog from the
\* answer to its tools/list.
C33_ListFailureNotConnected ==
  [][\A t \in TaskIds :
       (tasks[t].pc = "list" /\ Acting(t) /\ conn'[tasks[t].id].status = "connected") =>
         conn'[tasks[t].id].tools = Catalog[tasks[t].id]]_vars
\* a name in which no "__" occurs
NoSepIn(n) == \A j \in 1..(Len(n) - 1) : ~(n[j] = "_" /\ n[j + 1] = "_")

\* the POST handler t has read a tools/call request (version 2.0, with an id)
\* that came with a valid session
CallRequest(t) ==
  /\ tasks[t].op = "post" /\ tasks[t].req.sess # ""
  /\ tasks[t].req.msg.jsonrpc = "2.0" /\ tasks[t].req.msg.method = "tools/call"
  /\ tasks[t].req.msg.id # None

\* C34: a tools/call whose name contains no "__" is answered with the JSON-RPC
\* error -32602 in an HTTP 200 response; the manager is not called and the
\* handler never waits on a child.
C34_NoSeparatorInvalidParams ==
  \A t \in TaskIds :
    (CallRequest(t) /\ NoSepIn(tasks[t].req.msg.name)) =>
      /\ tasks[t].pc = "returned" /\ tasks[t].k = 0 /\ tasks[t].mgr = <<>>
      /\ tasks[t].reply.status = 200 /\ tasks[t].reply.kind = "error"
      /\ tasks[t].reply.code = InvalidParams /\ tasks[t].reply.id = tasks[t].req.msg.id

\* "ar" is answered with -32602 while child a is Connected and has the tool r
C34_Witness ==
  \E t \in TaskIds :
    /\ CallRequest(t) /\ tasks[t].req.msg.name = <<"a", "r">>
    /\ tasks[t].reply.code = InvalidParams
    /\ conn["a"].status = "connected" /\ "read" \in conn["a"].tools
\* C35: enable(id) on an id that is in the enabled-set while its child is not
\* Connected starts a new connect: run alone on a reachable child, it ends
\* with the child Connected, without a disable in between.
C35_ReenableReconnects ==
  \A c \in Reliable :
    (Quiescent /\ c \in enabled_servers /\ conn[c].status # "connected"
       /\ configs[c].command # "" /\ FreeCtx(G) # {}) =>
      \A g \in RunOp(G, [op |-> "enable", id |-> c]) : g.conn[c].status = "connected"
\* C36: a session stays in the table under its id until a DELETE names it: no
\* POST removes it, and a POST changes no record but that of the session its
\* own header names, whose initialized flag it can set.
C36_SessionKeptUntilDelete ==
  [][\A s \in DOMAIN sessions :
       /\ s \notin DOMAIN sessions' =>
            \E t \in TaskIds :
              Acting(t) /\ tasks'[t].op = "delete" /\ tasks'[t].req.hdr = s
       /\ (s \in DOMAIN sessions' /\ sessions'[s] # sessions[s]) =>
            /\ \E t \in TaskIds :
                  Acting(t) /\ tasks'[t].op = "post" /\ tasks'[t].req.hdr = s
            /\ sessions'[s] = [sessions[s] EXCEPT !.initialized = TRUE]]_vars

\* two sessions are in the table and a tools/call that came with the first has
\* been answered with an error
C36_Witness ==
  \E t \in TaskIds :
    /\ Answered(t) /\ tasks[t].req.hdr = Token(1)
    /\ tasks[t].req.msg.method = "tools/call" /\ tasks[t].reply.kind = "error"
    /\ {Token(1), Token(2)} \subseteq DOMAIN sessions
\* the step in which POST handler t reads a body that is a message without an id
ReadsNoId(t) ==
  /\ tasks[t].op = "post" /\ tasks[t].pc = "json" /\ Acting(t)
  /\ tasks'[t].req.msg # NoMsg /\ tasks'[t].req.msg.id = None

\* C39: a message without an id never calls the manager and never creates a
\* session, whatever its method: the handler answers at once, and all it can
\* change is the initialized flag of the session its header names; without a
\* valid session it changes nothing.
C39_NoIdNoEffect ==
  [][\A t \in TaskIds :
       ReadsNoId(t) =>
         /\ tasks'[t].pc = "returned" /\ tasks'[t].mgr = <<>>
         /\ minted' = minted /\ DOMAIN sessions' = DOMAIN sessions
         /\ UNCHANGED <<configs, enabled_servers, servers, conn, ctxs>>
         /\ \A s \in DOMAIN sessions :
              sessions'[s] # sessions[s] =>
                /\ s = tasks[t].req.sess
                /\ sessions'[s] = [sessions[s] EXCEPT !.initialized = TRUE]
         /\ tasks[t].req.sess = "" => sessions' = sessions]_vars

\* an initialize without an id and without a session has been answered, and
\* no session has been created
C39_Witness ==
  \E t \in TaskIds :
    /\ Answered(t) /\ tasks[t].req.sess = ""
    /\ tasks[t].req.msg.jsonrpc = "2.0" /\ tasks[t].req.msg.method = "initialize"
    /\ tasks[t].req.msg.id = None
    /\ tasks[t].reply.status = 202 /\ minted = 0 /\ sessions = <<>>
\* C37: a child whose status is Connected holds a session, so that a call
\* that passed the manager's checks does not fail on the connection's own
\* not-connected check, whatever disable or shutdown overlaps a connect.
C37_ConnectedHasSession ==
  \A c \in ConfigIds : conn[c].status = "connected" => conn[c].session # 0

\* C38: a child whose status is Connected has no last_error: the error is set
\* by a failed connect only and cleared when the next connect starts, for
\* every interleaving of enable and disable on the child.
C38_ConnectedHasNoError ==
  \A c \in ConfigIds : conn[c].status = "connected" => GetServerInfo(G, c).error = NoError
\* C40: enable(id) and disable(id) for an id that is not configured return
\* False and change nothing; the enabled-set and the child records hold
\* configured ids only.
C40_UnknownIdRejected ==
  [][/\ \A t \in TaskIds :
          (Acting(t) /\ tasks'[t].op \in {"enable", "disable"}
             /\ tasks'[t].id \notin DOMAIN configs) =>
            /\ tasks'[t].pc = "returned" /\ tasks'[t].ret = "False"
            /\ UNCHANGED <<configs, enabled_servers, servers, conn, ctxs>>
     /\ enabled_servers' \subseteq DOMAIN configs
     /\ Range(servers') \subseteq DOMAIN configs]_vars

\* enable or disable of the id x has returned False while child a is Connected
\* and enabled
C40_Witness ==
  /\ \E t \in TaskIds :
       /\ tasks[t].pc = "returned" /\ tasks[t].op \in {"enable", "disable"}
       /\ tasks[t].id = UnknownId /\ tasks[t].ret = "False"
  /\ conn["a"].status = "connected" /\ enabled_servers = {"a"}
====
